---- MODULE Spec2Model ----
(***************************************************************************)
(* A model of gmgnscraper (src/main.py): the GmgnScraper class with its    *)
(* sent-token cache (load_cache, save_cache, was_token_sent_recently,      *)
(* mark_token_as_sent), the delivery step send_to_telegram and the poll    *)
(* cycle scrape, driven by the __main__ block.  One process run is one     *)
(* cycle; successive runs share the cache file.                            *)
(***************************************************************************)
EXTENDS Integers, Sequences, FiniteSets, TLC

(***************************************************************************)
(* Bounds of the model and constants of the program.                       *)
(***************************************************************************)
\* the clock takes the first MaxClock + 1 instants of 0, H-1, H, 2H-1, 2H, ...
MaxClock == 2
\* the longest ranking list of the runs whose history across runs is recorded
MaxRunFeed == 2
\* the longest ranking list of an invocation that overlaps another
MaxOverlapFeed == 1
\* main.py:151  json_response["data"]["rank"][:4]
TopN == 4
\* main.py:45 and main.py:68  24 * 3600 seconds
Horizon == 24 * 3600

\* token addresses the ranking feed may carry
Addrs == {"A", "B"}

\* the instants datetime.now().timestamp() may return, in seconds: each multiple
\* of the horizon and the second before it
TimePoint(i) == ((i + 1) \div 2) * Horizon - (i % 2)
TimePoints == {TimePoint(i) : i \in 0..MaxClock}

\* a python dict with no entries
EmptyDict == [k \in {} |-> 0]

\* a well-formed record of the ranking feed (the fields the program consumes)
Coin(a) == [address |-> a, symbol |-> a, usd_market_cap |-> 1]
\* a record of the feed that lacks the "address" field
CoinNoAddress == [symbol |-> "A", usd_market_cap |-> 1]
\* a record of the feed that lacks the "symbol" field
CoinNoSymbol == [address |-> "B", usd_market_cap |-> 1]
\* the records a ranking list is made of
Coins == {Coin(a) : a \in Addrs} \cup {CoinNoAddress, CoinNoSymbol}
\* the loop variable before and after the loop
NoCoin == EmptyDict

\* a record with every field the program consumes
WellFormed(c) == {"address", "symbol", "usd_market_cap"} \subseteq DOMAIN c

\* the ranking list taken whole, without the slice
CoinsDataLen_NoCap(n) == n

\* main.py:151  len(rank[:4]) for a ranking list of n records
CoinsDataLen(n) == IF n < TopN THEN n ELSE TopN

\* the lengths of the ranking list the source returns: every length up to the
\* cap, and one beyond it
RankLens == 0..(TopN + 1)

\* main.py:76 and main.py:154  the dedup key built from a record's address
DedupKey(address) == "https://dexscreener.com/solana/" \o address
Keys == {DedupKey(a) : a \in Addrs}

\* the states of sent_tokens.json on disk
FileMissing == [kind |-> "missing", map |-> EmptyDict]
FileUnreadable == [kind |-> "unreadable", map |-> EmptyDict]
FileInvalidJson == [kind |-> "invalid_json", map |-> EmptyDict]
FileWrongShape == [kind |-> "wrong_shape", map |-> EmptyDict]
FileDict(m) == [kind |-> "dict", map |-> m]

VARIABLES
  now,          \* the wall clock, datetime.now().timestamp()
  file,         \* sent_tokens.json on disk
  sent_tokens,  \* GmgnScraper.sent_tokens of the running (or last) process
  pc,           \* where the process is: idle, loaded, loop, send, done
  rank_len,     \* the length of the ranking list the source returned
  idx,          \* the position of the for loop in coins_data (1-based)
  coin,         \* the loop variable: the record of coins_data at idx
  fetch,        \* the outcome of the external source call of this cycle
  exit_kind,    \* how the cycle ended: none, normal, raised
  \* what has happened so far (read by the properties, never by the program)
  store0,       \* sent_tokens when scrape() of this cycle was entered
  file0,        \* the cache file when scrape() of this cycle was entered
  recent0,      \* the keys that were recent when scrape() of this cycle was entered
  seen,         \* this cycle: the records the loop has reached, in loop order
  checked,      \* this cycle: the answer of each recency check, in loop order
  attempts,     \* this cycle: the calls of the messaging sink, in call order
  io_failed,    \* a write of the cache has failed in this run
  save_failed,  \* this run: per key whose mark was followed by a failed write of
                \* the cache, the time of the latest such mark
  cleaned,      \* this run: cleanup_temp_files has been called
  \* what has happened over the runs (recorded by SpecRuns only)
  last_sent,    \* per key, the time of its latest successful delivery and mark,
                \* in this run or, while no load or write of the cache has failed
                \* since, in an earlier run
  prev_sent,    \* per key, the time of the successful delivery before that one
  retry,        \* the keys whose latest delivery, in an earlier cycle, failed
  \* two invocations of the program that overlap in time (SpecOverlap only)
  proc          \* per invocation: where it is, its sent_tokens, its loop variable,
                \* and what it has loaded, delivered and written so far

prog == <<now, file, sent_tokens, pc, rank_len, idx, coin, fetch, exit_kind>>
hist == <<store0, file0, recent0, seen, checked, attempts, last_sent, prev_sent,
         io_failed, save_failed, cleaned, retry>>
vars == <<prog, hist, proc>>

(***************************************************************************)
(* The cache operations.                                                   *)
(***************************************************************************)
\* the pruning with the horizon itself kept
PruneOld_Inclusive(tokens, t) ==
  [k \in {x \in DOMAIN tokens : t - tokens[x] <= Horizon} |-> tokens[k]]

\* main.py:42-46  the dict comprehension that drops the old entries
PruneOld(tokens, t) ==
  [k \in {x \in DOMAIN tokens : t - tokens[x] < Horizon} |-> tokens[k]]

\* load_cache without the try/except: an unreadable or malformed file raises
load_cache_NoExcept(f, t) ==
  IF f.kind = "missing"
    THEN [raised |-> FALSE, sent_tokens |-> EmptyDict]
    ELSE IF f.kind = "dict"
      THEN [raised |-> FALSE, sent_tokens |-> PruneOld(f.map, t)]
      ELSE [raised |-> TRUE, sent_tokens |-> EmptyDict]

\* main.py:33-53  load_cache: the store it leaves, and whether it raised
load_cache(f, t) ==
  IF f.kind = "missing"
    THEN [raised |-> FALSE, sent_tokens |-> EmptyDict]
    ELSE IF f.kind = "dict"
      THEN [raised |-> FALSE, sent_tokens |-> PruneOld(f.map, t)]
      ELSE [raised |-> FALSE, sent_tokens |-> EmptyDict]

\* the ways the write of the cache file can end
SaveOutcomes == {"ok", "open_failed", "write_failed"}

\* save_cache that reports success and leaves the file as it was
save_cache_NoWrite(f, tokens, outcome) ==
  [raised |-> FALSE,
   file |-> IF outcome = "write_failed" THEN FileInvalidJson ELSE f]

\* save_cache without the try/except: a failed open or write propagates
save_cache_NoExcept(f, tokens, outcome) ==
  [raised |-> outcome # "ok",
   file |-> IF outcome = "ok" THEN FileDict(tokens)
            ELSE IF outcome = "open_failed" THEN f
            ELSE FileInvalidJson]

\* main.py:55-62  save_cache: whether it raised (main.py:61-62 logs every
\* Exception of the open and of the write) and the file it leaves: open(.., "w")
\* that fails leaves the file as it was, a write that fails leaves it partial
save_cache(f, tokens, outcome) ==
  [raised |-> FALSE,
   file |-> IF outcome = "ok" THEN FileDict(tokens)
            ELSE IF outcome = "open_failed" THEN f
            ELSE FileInvalidJson]

\* was_token_sent_recently with the horizon itself counted as recent
was_token_sent_recently_Inclusive(tokens, token_address, t) ==
  IF token_address \in DOMAIN tokens
    THEN t - tokens[token_address] <= Horizon
    ELSE FALSE

\* main.py:64-69  was_token_sent_recently
was_token_sent_recently(tokens, token_address, t) ==
  IF token_address \in DOMAIN tokens
    THEN t - tokens[token_address] < Horizon
    ELSE FALSE

\* main.py:72  the assignment self.sent_tokens[token_address] = now
SetSent(tokens, token_address, t) ==
  [k \in DOMAIN tokens \cup {token_address} |->
     IF k = token_address THEN t ELSE tokens[k]]

\* main.py:71-73  mark_token_as_sent: whether it raised, and the store and the
\* file it leaves
mark_token_as_sent(tokens, f, token_address, t, outcome) ==
  LET s == save_cache(f, SetSent(tokens, token_address, t), outcome) IN
  [raised |-> s.raised,
   sent_tokens |-> SetSent(tokens, token_address, t),
   file |-> s.file]

\* the invocations of the program that overlap in time
Procs == {1, 2}

\* an invocation that has not started: its place, its sent_tokens, the length
\* of its coins_data, its loop position and loop variable, and what it has done
\* so far: the cache file as it loaded it, the keys it delivered, the keys it
\* wrote to the cache file
ProcIdle ==
  [pc |-> "idle", sent_tokens |-> EmptyDict, rank_len |-> 0, idx |-> 1,
   coin |-> NoCoin, file0 |-> FileMissing, delivered |-> {}, written |-> {}]

(***************************************************************************)
(* The initial state: no process has run yet, the cache file is in any of  *)
(* the states a first run can find it in.                                  *)
(***************************************************************************)
InitFiles ==
  {FileMissing, FileUnreadable, FileInvalidJson, FileWrongShape, FileDict(EmptyDict)}

Init ==
  /\ now = 0
  /\ file \in InitFiles
  /\ sent_tokens = EmptyDict
  /\ pc = "idle"
  /\ rank_len = 0
  /\ idx = 1
  /\ coin = NoCoin
  /\ fetch = "none"
  /\ exit_kind = "none"
  /\ store0 = EmptyDict
  /\ file0 = file
  /\ recent0 = {}
  /\ seen = <<>>
  /\ checked = <<>>
  /\ attempts = <<>>
  /\ last_sent = EmptyDict
  /\ prev_sent = EmptyDict
  /\ io_failed = FALSE
  /\ save_failed = EmptyDict
  /\ cleaned = FALSE
  /\ retry = {}
  /\ proc = [p \in Procs |-> ProcIdle]

\* time passes
Tick ==
  /\ \E t \in TimePoints : t > now /\ now' = t
  /\ UNCHANGED <<file, sent_tokens, pc, rank_len, idx, coin, fetch, exit_kind>>
  /\ UNCHANGED hist
  /\ UNCHANGED proc

\* the keys owed a retry once a cycle with the sink calls atts is over: those
\* whose latest delivery failed
RetryAfter(old, atts) ==
  {k \in old \cup {atts[i].key : i \in DOMAIN atts} :
     IF \E i \in DOMAIN atts : atts[i].key = k
       THEN LET last == CHOOSE i \in DOMAIN atts :
                          /\ atts[i].key = k
                          /\ \A j \in DOMAIN atts : atts[j].key = k => j <= i
            IN ~atts[last].ok
       ELSE k \in old}

\* main.py:26-31 and main.py:176  a process starts: GmgnScraper() loads the cache
\* (runs: whether the history across runs is recorded)
Construct(runs) ==
  /\ pc \in {"idle", "done"}
  /\ LET r == load_cache(file, now) IN
       /\ sent_tokens' = r.sent_tokens
       /\ pc' = IF r.raised THEN "done" ELSE "loaded"
       /\ exit_kind' = IF r.raised THEN "raised" ELSE "none"
  /\ rank_len' = 0
  /\ idx' = 1
  /\ coin' = NoCoin
  /\ fetch' = "none"
  /\ store0' = sent_tokens'
  /\ file0' = file
  /\ recent0' = {}
  /\ seen' = <<>>
  /\ checked' = <<>>
  /\ attempts' = <<>>
  /\ io_failed' = FALSE
  /\ save_failed' = EmptyDict
  /\ cleaned' = FALSE
  /\ last_sent' = IF io_failed \/ file.kind \notin {"missing", "dict"}
                    THEN EmptyDict ELSE last_sent
  /\ prev_sent' = IF io_failed \/ file.kind \notin {"missing", "dict"}
                    THEN EmptyDict ELSE prev_sent
  /\ retry' = IF runs THEN RetryAfter(retry, attempts) ELSE retry
  /\ UNCHANGED <<now, file, proc>>

(***************************************************************************)
(* The poll cycle.  The ranking list is fixed by the source, and the loop  *)
(* reads it one record at a time, in order: the record at a position is    *)
(* drawn when the loop reaches that position.                              *)
(***************************************************************************)
\* the ways the call of the ranking API can end
FetchOutcomes == {"network_error", "non200", "invalid_json", "no_rank", "ok"}

\* main.py:117-153  scrape up to the first pass of the for loop: the request, the
\* status check, response.json() and json_response["data"]["rank"][:4]
\* (lens: the lengths of the ranking list the source may return)
Fetch(lens) ==
  /\ pc = "loaded"
  /\ \E outcome \in FetchOutcomes, n \in lens :
       /\ fetch' = outcome
       /\ IF outcome = "ok"
            THEN /\ rank_len' = n
                 /\ pc' = IF CoinsDataLen(n) = 0 THEN "done" ELSE "loop"
                 /\ exit_kind' = IF CoinsDataLen(n) = 0 THEN "normal" ELSE "none"
                 /\ IF CoinsDataLen(n) = 0 THEN coin' = NoCoin ELSE coin' \in Coins
            ELSE /\ n = 0
                 /\ rank_len' = 0
                 /\ pc' = "done"
                 /\ coin' = NoCoin
                 \* main.py:169-171 re-raises what is not a non-200 status (165-167)
                 \* nor a ValueError of response.json() (160-164)
                 /\ exit_kind' = IF outcome \in {"non200", "invalid_json"}
                                   THEN "normal" ELSE "raised"
  /\ idx' = 1
  /\ seen' = IF pc' = "loop" THEN <<coin'>> ELSE <<>>
  /\ recent0' = {k \in Keys : was_token_sent_recently(sent_tokens, k, now)}
  /\ UNCHANGED <<now, file, sent_tokens>>
  /\ UNCHANGED <<store0, file0, checked, attempts, last_sent, prev_sent, io_failed, retry>>
  /\ UNCHANGED <<save_failed, cleaned, proc>>

\* main.py:153  the for loop moves on to the next record, or ends
NextCoin ==
  /\ idx' = idx + 1
  /\ pc' = IF idx < CoinsDataLen(rank_len) THEN "loop" ELSE "done"
  /\ exit_kind' = IF idx < CoinsDataLen(rank_len) THEN "none" ELSE "normal"
  /\ IF idx < CoinsDataLen(rank_len) THEN coin' \in Coins ELSE coin' = NoCoin
  /\ seen' = IF idx < CoinsDataLen(rank_len) THEN Append(seen, coin') ELSE seen

\* main.py:169-171 and main.py:178-179  an exception leaves the loop and scrape
Raise ==
  /\ pc' = "done"
  /\ exit_kind' = "raised"
  /\ UNCHANGED <<idx, coin, seen>>

\* the loop pass that calls send_to_telegram whatever the recency check answered
Check_SendsRecent ==
  /\ pc = "loop"
  /\ IF "address" \notin DOMAIN coin
       THEN /\ Raise
            /\ checked' = checked
       ELSE /\ checked' = Append(checked,
                 was_token_sent_recently(sent_tokens, DedupKey(coin.address), now))
            /\ pc' = "send"
            /\ UNCHANGED <<idx, coin, exit_kind, seen>>
  /\ UNCHANGED <<now, file, sent_tokens, rank_len, fetch>>
  /\ UNCHANGED <<store0, file0, recent0, attempts, last_sent, prev_sent, io_failed, retry>>
  /\ UNCHANGED <<save_failed, cleaned, proc>>

\* the loop pass whose recency check drops the expired entries of the store
Check_PrunesExpired ==
  /\ pc = "loop"
  /\ sent_tokens' = PruneOld(sent_tokens, now)
  /\ IF "address" \notin DOMAIN coin
       THEN /\ Raise
            /\ checked' = checked
       ELSE LET recent == was_token_sent_recently(sent_tokens, DedupKey(coin.address), now) IN
            /\ checked' = Append(checked, recent)
            /\ IF ~recent
                 THEN /\ pc' = "send"
                      /\ UNCHANGED <<idx, coin, exit_kind, seen>>
                 ELSE IF "symbol" \notin DOMAIN coin
                   THEN Raise
                   ELSE NextCoin
  /\ UNCHANGED <<now, file, rank_len, fetch>>
  /\ UNCHANGED <<store0, file0, recent0, attempts, last_sent, prev_sent, io_failed, retry>>
  /\ UNCHANGED <<save_failed, cleaned, proc>>

\* main.py:153-158  one pass of the loop up to the call of send_to_telegram
Check ==
  /\ pc = "loop"
  /\ IF "address" \notin DOMAIN coin
       THEN \* main.py:154 KeyError
            /\ Raise
            /\ checked' = checked
       ELSE LET recent == was_token_sent_recently(sent_tokens, DedupKey(coin.address), now) IN
            /\ checked' = Append(checked, recent)
            /\ IF ~recent
                 THEN /\ pc' = "send"
                      /\ UNCHANGED <<idx, coin, exit_kind, seen>>
                 ELSE IF "symbol" \notin DOMAIN coin
                   THEN Raise  \* main.py:158 KeyError
                   ELSE NextCoin
  /\ UNCHANGED <<now, file, sent_tokens, rank_len, fetch>>
  /\ UNCHANGED <<store0, file0, recent0, attempts, last_sent, prev_sent, io_failed, retry>>
  /\ UNCHANGED <<save_failed, cleaned, proc>>

\* main.py:174-179  the exit status of the process once scrape has returned or
\* raised: the except clause of main.py:178-179 logs the exception, the script
\* runs off its end either way, and the interpreter exits with status 0
ExitStatus(kind) ==
  IF kind = "raised"
    THEN 0  \* main.py:178-179  logged, not raised again, no sys.exit
    ELSE 0  \* main.py:177  scrape returned

\* the ways the request to the messaging sink can end
SinkOutcomes == {"ok", "connection_error", "http_error"}

\* send_to_telegram without raise_for_status: an error status counts as sent
send_to_telegram_NoRaiseForStatus(tokens, f, c, t, sink, save) ==
  IF WellFormed(c)
    THEN IF sink \in {"ok", "http_error"}
      THEN LET m == mark_token_as_sent(tokens, f, DedupKey(c.address), t, save) IN
           [raised |-> m.raised, called |-> TRUE, delivered |-> sink = "ok",
            sent_tokens |-> m.sent_tokens, file |-> m.file]
      ELSE [raised |-> FALSE, called |-> TRUE, delivered |-> FALSE,
            sent_tokens |-> tokens, file |-> f]
    ELSE [raised |-> TRUE, called |-> FALSE, delivered |-> FALSE,
          sent_tokens |-> tokens, file |-> f]

\* send_to_telegram with the mark moved out of the success path: the key is
\* marked whether or not the request succeeded
send_to_telegram_MarkAlways(tokens, f, c, t, sink, save) ==
  IF WellFormed(c)
    THEN LET m == mark_token_as_sent(tokens, f, DedupKey(c.address), t, save) IN
         [raised |-> m.raised, called |-> TRUE, delivered |-> sink = "ok",
          sent_tokens |-> m.sent_tokens, file |-> m.file]
    ELSE [raised |-> TRUE, called |-> FALSE, delivered |-> FALSE,
          sent_tokens |-> tokens, file |-> f]

\* send_to_telegram without the except clause: a failed request propagates
send_to_telegram_NoExcept(tokens, f, c, t, sink, save) ==
  IF WellFormed(c)
    THEN IF sink = "ok"
      THEN LET m == mark_token_as_sent(tokens, f, DedupKey(c.address), t, save) IN
           [raised |-> m.raised, called |-> TRUE, delivered |-> TRUE,
            sent_tokens |-> m.sent_tokens, file |-> m.file]
      ELSE [raised |-> TRUE, called |-> TRUE, delivered |-> FALSE,
            sent_tokens |-> tokens, file |-> f]
    ELSE [raised |-> TRUE, called |-> FALSE, delivered |-> FALSE,
          sent_tokens |-> tokens, file |-> f]

\* send_to_telegram that marks the bare address, not the key the loop checks
send_to_telegram_RawKey(tokens, f, c, t, sink, save) ==
  IF WellFormed(c)
    THEN IF sink = "ok"
      THEN LET m == mark_token_as_sent(tokens, f, c.address, t, save) IN
           [raised |-> m.raised, called |-> TRUE, delivered |-> TRUE,
            sent_tokens |-> m.sent_tokens, file |-> m.file]
      ELSE [raised |-> FALSE, called |-> TRUE, delivered |-> FALSE,
            sent_tokens |-> tokens, file |-> f]
    ELSE [raised |-> TRUE, called |-> FALSE, delivered |-> FALSE,
          sent_tokens |-> tokens, file |-> f]

\* main.py:75-102  send_to_telegram: whether it raised, whether the sink was
\* called, whether the message was delivered, and the store and file it leaves
\* (main.py:101 catches RequestException only: what mark_token_as_sent raises
\* would leave send_to_telegram)
send_to_telegram(tokens, f, c, t, sink, save) ==
  IF WellFormed(c)
    THEN IF sink = "ok"
      THEN LET m == mark_token_as_sent(tokens, f, DedupKey(c.address), t, save) IN
           [raised |-> m.raised, called |-> TRUE, delivered |-> TRUE,
            sent_tokens |-> m.sent_tokens, file |-> m.file]
      ELSE \* main.py:101-102 the RequestException is logged
           [raised |-> FALSE, called |-> TRUE, delivered |-> FALSE,
            sent_tokens |-> tokens, file |-> f]
    ELSE \* main.py:76-93 KeyError before the request
         [raised |-> TRUE, called |-> FALSE, delivered |-> FALSE,
          sent_tokens |-> tokens, file |-> f]

\* main.py:156  the call of send_to_telegram for a record that is not recent
\* (runs: whether the history across runs is recorded)
Send(runs) ==
  /\ pc = "send"
  /\ \E sink \in SinkOutcomes, save \in SaveOutcomes :
       LET key == DedupKey(coin.address)
           r == send_to_telegram(sent_tokens, file, coin, now, sink, save)
       IN
       \* the request has an outcome only when it is made, and the write of the
       \* cache only after a request that succeeded
       /\ ~WellFormed(coin) => sink = "ok"
       /\ (sink # "ok" \/ ~WellFormed(coin)) => save = "ok"
       /\ sent_tokens' = r.sent_tokens
       /\ file' = r.file
       /\ IF r.raised THEN Raise ELSE NextCoin
       /\ attempts' = IF r.called
                        THEN Append(attempts, [pos |-> idx, key |-> key, ok |-> r.delivered])
                        ELSE attempts
       /\ last_sent' = IF runs /\ r.delivered
                         THEN SetSent(last_sent, key, now) ELSE last_sent
       /\ prev_sent' = IF runs /\ r.delivered /\ key \in DOMAIN last_sent
                         THEN SetSent(prev_sent, key, last_sent[key]) ELSE prev_sent
       /\ io_failed' = (io_failed \/ (r.delivered /\ save # "ok"))
       /\ save_failed' = IF r.delivered /\ save # "ok"
                           THEN SetSent(save_failed, key, now) ELSE save_failed
  /\ UNCHANGED <<now, rank_len, fetch>>
  /\ UNCHANGED <<store0, file0, recent0, checked, retry>>
  /\ UNCHANGED <<cleaned, proc>>

\* the runs of the program, one cycle each, over ranking lists of every length up
\* to the cap and one beyond it
Next == Tick \/ Construct(FALSE) \/ Fetch(RankLens) \/ Check \/ Send(FALSE)

Spec == Init /\ [][Next]_vars

\* the same runs over ranking lists of at most MaxRunFeed records, with the
\* history across runs recorded
NextRuns == Tick \/ Construct(TRUE) \/ Fetch(0..MaxRunFeed) \/ Check \/ Send(TRUE)

SpecRuns == Init /\ [][NextRuns]_vars

(***************************************************************************)
(* Two invocations of the program that overlap in time (a scheduler starts *)
(* the second before the first has ended).  Each runs the code above on    *)
(* its own sent_tokens; they share sent_tokens.json and the clock.  The    *)
(* steps of an invocation are cut at its reads and writes of the file:     *)
(* save_cache is the open of main.py:58, which truncates the file, and the *)
(* json.dump of main.py:59, which writes the mapping.  The source answers, *)
(* its records are token records, and every open and write succeeds.       *)
(***************************************************************************)
\* the token records of the feed
TokenCoins == {Coin(a) : a \in Addrs}

\* main.py:153  the for loop of invocation p, left in r by the pass that ended,
\* moves on to the next record, or ends
OverlapNextCoin(p, r) ==
  IF r.idx < CoinsDataLen(r.rank_len)
    THEN \E c \in TokenCoins :
           proc' = [proc EXCEPT ![p] = [r EXCEPT !.pc = "loop", !.idx = r.idx + 1, !.coin = c]]
    ELSE proc' = [proc EXCEPT ![p] = [r EXCEPT !.pc = "done", !.coin = NoCoin]]

\* main.py:26-31 and main.py:176  invocation p starts: GmgnScraper() loads the cache
OverlapConstruct(p) ==
  /\ proc[p].pc = "idle"
  /\ proc' = [proc EXCEPT ![p] =
                [@ EXCEPT !.pc = "loaded",
                          !.sent_tokens = load_cache(file, now).sent_tokens,
                          !.file0 = file]]
  /\ UNCHANGED <<prog, hist>>

\* main.py:117-153  scrape of invocation p up to the first pass of the for loop
OverlapFetch(p) ==
  /\ proc[p].pc = "loaded"
  /\ \E n \in 0..MaxOverlapFeed :
       IF CoinsDataLen(n) = 0
         THEN proc' = [proc EXCEPT ![p] = [@ EXCEPT !.pc = "done", !.rank_len = n]]
         ELSE \E c \in TokenCoins :
                proc' = [proc EXCEPT ![p] =
                           [@ EXCEPT !.pc = "loop", !.rank_len = n, !.idx = 1, !.coin = c]]
  /\ UNCHANGED <<prog, hist>>

\* main.py:154-155 and main.py:158  the recency check of invocation p
OverlapCheck(p) ==
  /\ proc[p].pc = "loop"
  /\ IF was_token_sent_recently(proc[p].sent_tokens, DedupKey(proc[p].coin.address), now)
       THEN OverlapNextCoin(p, proc[p])
       ELSE proc' = [proc EXCEPT ![p] = [@ EXCEPT !.pc = "send"]]
  /\ UNCHANGED <<prog, hist>>

\* main.py:96-102  the request of invocation p to the messaging sink
OverlapRequest(p) ==
  /\ proc[p].pc = "send"
  /\ \E sink \in SinkOutcomes :
       IF sink = "ok"
         THEN proc' = [proc EXCEPT ![p] =
                         [@ EXCEPT !.pc = "mark",
                                   !.delivered = @ \cup {DedupKey(proc[p].coin.address)}]]
         ELSE OverlapNextCoin(p, proc[p])
  /\ UNCHANGED <<prog, hist>>

\* main.py:72 and main.py:58  invocation p sets the entry in its sent_tokens and
\* opens the cache file for writing: the file is empty until the mapping is
\* written, and an empty file is not valid JSON
OverlapOpen(p) ==
  /\ proc[p].pc = "mark"
  /\ proc' = [proc EXCEPT ![p] =
                [@ EXCEPT !.pc = "dump",
                          !.sent_tokens =
                             SetSent(@, DedupKey(proc[p].coin.address), now)]]
  /\ file' = FileInvalidJson
  /\ UNCHANGED <<now, sent_tokens, pc, rank_len, idx, coin, fetch, exit_kind>>
  /\ UNCHANGED hist

\* main.py:59  invocation p writes its sent_tokens to the cache file
OverlapDump(p) ==
  /\ proc[p].pc = "dump"
  /\ file' = save_cache(file, proc[p].sent_tokens, "ok").file
  /\ OverlapNextCoin(p, [proc[p] EXCEPT
                           !.written = @ \cup {DedupKey(proc[p].coin.address)}])
  /\ UNCHANGED <<now, sent_tokens, pc, rank_len, idx, coin, fetch, exit_kind>>
  /\ UNCHANGED hist

\* the cache file the two invocations find: absent, or a mapping
InitOverlap == Init /\ file.kind \in {"missing", "dict"}

NextOverlap ==
  \E p \in Procs :
    \/ OverlapConstruct(p)
    \/ OverlapFetch(p)
    \/ OverlapCheck(p)
    \/ OverlapRequest(p)
    \/ OverlapOpen(p)
    \/ OverlapDump(p)

SpecOverlap == InitOverlap /\ [][NextOverlap]_vars

(***************************************************************************)
(* What the properties speak of.                                           *)
(***************************************************************************)
\* a process has loaded its store (it may have finished its cycle since)
Loaded == pc \in {"loaded", "loop", "send", "done"}

\* the cycle is over
CycleOver == pc = "done"

\* this cycle set or changed the timestamp of k in the in-memory store
ChangedInStore(k) ==
  k \in DOMAIN sent_tokens /\ (k \notin DOMAIN store0 \/ sent_tokens[k] # store0[k])

\* this cycle set or changed the timestamp of k in the cache file
ChangedInFile(k) ==
  /\ file.kind = "dict"
  /\ k \in DOMAIN file.map
  /\ (file0.kind # "dict" \/ k \notin DOMAIN file0.map \/ file.map[k] # file0.map[k])

\* the sink calls of this cycle for key k
AttemptsOf(k) == {i \in DOMAIN attempts : attempts[i].key = k}

\* a delivery of k succeeded in this cycle
DeliveredInCycle(k) == \E i \in AttemptsOf(k) : attempts[i].ok

\* the source returned a ranking list and every record the loop has reached is
\* a token record (it has the fields the program consumes)
FetchedTokenRecords ==
  fetch = "ok" /\ \A i \in DOMAIN seen : WellFormed(seen[i])

\* the sink was called for the record at position i
Attempted(i) == \E j \in DOMAIN attempts : attempts[j].pos = i

(***************************************************************************)
(* C1.  A key is marked sent only after a delivery of it succeeded in the  *)
(* same cycle: in every reachable state, a key whose timestamp this cycle  *)
(* set or changed, in the store or in the cache file, has a successful     *)
(* delivery in this cycle; so a key all of whose deliveries failed is      *)
(* neither inserted nor updated.                                           *)
(***************************************************************************)
C1_MarkOnlyAfterSuccess ==
  \A k \in Keys \cup DOMAIN sent_tokens \cup DOMAIN file.map :
    (ChangedInStore(k) \/ ChangedInFile(k)) => DeliveredInCycle(k)

\* a cycle in which one key failed delivery and stayed out of the store while
\* another was delivered and marked
C1_Witness ==
  /\ CycleOver
  /\ \E i, j \in DOMAIN attempts :
       /\ ~attempts[i].ok
       /\ attempts[i].key \notin DOMAIN sent_tokens
       /\ attempts[j].ok
       /\ ChangedInStore(attempts[j].key)
       /\ ChangedInFile(attempts[j].key)

(***************************************************************************)
(* C2.  While every load and every write of the cache succeeds, no key is  *)
(* delivered twice less than 24 hours apart: two successive successful     *)
(* deliveries of a key, in one run or in different runs, are at least the  *)
(* horizon apart.                                                          *)
(***************************************************************************)
C2_NoRedeliveryWithinWindow ==
  \A k \in DOMAIN prev_sent : last_sent[k] - prev_sent[k] >= Horizon

\* a key delivered in one run and, the window having elapsed, again in a later one
C2_Witness ==
  \E k \in DOMAIN prev_sent :
    /\ last_sent[k] - prev_sent[k] >= Horizon
    /\ file.kind = "dict"
    /\ k \in DOMAIN file.map
    /\ file.map[k] = last_sent[k]

(***************************************************************************)
(* C3.  Expiry: if key k was last marked sent at time T (in this run, or   *)
(* in an earlier run with every load and write of the cache succeeding     *)
(* since), the recency query answers true at every time t with             *)
(* T <= t < T + 24h and false at every time t >= T + 24h.                  *)
(***************************************************************************)
C3_Expiry ==
  Loaded =>
    \A k \in DOMAIN last_sent :
      /\ last_sent[k] <= now
      /\ (now < last_sent[k] + Horizon =>
            was_token_sent_recently(sent_tokens, k, now))
      /\ (now >= last_sent[k] + Horizon =>
            ~was_token_sent_recently(sent_tokens, k, now))

\* the boundary: a key marked exactly 24 hours ago, still in the store of a
\* later run, and another marked since that is recent
C3_Witness ==
  /\ Loaded
  /\ \E k, r \in DOMAIN last_sent :
       /\ now = last_sent[k] + Horizon
       /\ k \in DOMAIN sent_tokens
       /\ k \notin {attempts[i].key : i \in DOMAIN attempts}
       /\ now < last_sent[r] + Horizon
       /\ last_sent[r] < now

(***************************************************************************)
(* C4.  A delivery failure never aborts the cycle: once the cycle over a   *)
(* fetched list of token records is over, it has ended normally with every *)
(* candidate reached, and for every failed delivery, each later candidate  *)
(* that was not recent was attempted, and each of those whose delivery     *)
(* succeeded is marked sent.                                               *)
(***************************************************************************)
C4_FailureIsolation ==
  (CycleOver /\ FetchedTokenRecords) =>
    /\ exit_kind = "normal"
    /\ Len(seen) = CoinsDataLen(rank_len)
    /\ Len(checked) = Len(seen)
    /\ \A f \in DOMAIN attempts :
         ~attempts[f].ok =>
           \A i \in DOMAIN seen :
             (i > attempts[f].pos /\ ~checked[i]) =>
               \E j \in DOMAIN attempts :
                 /\ attempts[j].pos = i
                 /\ attempts[j].key = DedupKey(seen[i].address)
                 /\ attempts[j].ok => ChangedInStore(attempts[j].key)

\* candidate 2 of 4 fails; candidates 1, 3 and 4 are delivered and marked
C4_Witness ==
  /\ CycleOver
  /\ FetchedTokenRecords
  /\ Len(seen) = 4
  /\ Len(attempts) >= 3
  /\ \E f \in DOMAIN attempts : attempts[f].pos = 2 /\ ~attempts[f].ok
  /\ \E j \in DOMAIN attempts : attempts[j].pos = 3 /\ attempts[j].ok
  /\ \E j \in DOMAIN attempts :
       attempts[j].pos = 4 /\ ~attempts[j].ok /\ attempts[j].key \notin DOMAIN sent_tokens

(***************************************************************************)
(* C5.  Fetch failure leaves the store alone: when the cycle is over and   *)
(* the external source call failed (network error, non-200 status, a body  *)
(* that is not JSON, a body without the ranking list, or a ranking list    *)
(* with a record that lacks a consumed field), the in-memory store and the *)
(* cache file are what they were when scrape() was entered.                *)
(***************************************************************************)
FetchFailed ==
  \/ fetch \in {"network_error", "non200", "invalid_json", "no_rank"}
  \/ fetch = "ok" /\ \E i \in DOMAIN seen : ~WellFormed(seen[i])

C5_FetchFailureNonMutation ==
  (CycleOver /\ FetchFailed) => (sent_tokens = store0 /\ file = file0)

(***************************************************************************)
(* C6, as stated.  If every candidate's key was recent when the cycle      *)
(* started, the cycle calls the sink zero times and leaves the store and   *)
(* the cache file unchanged.                                               *)
(***************************************************************************)
C6_RecentAtStart ==
  (/\ CycleOver
   /\ fetch = "ok"
   /\ \A i \in DOMAIN seen :
        "address" \in DOMAIN seen[i] /\ DedupKey(seen[i].address) \in recent0)
  => (attempts = <<>> /\ sent_tokens = store0 /\ file = file0)

(***************************************************************************)
(* C6, amended.  If every candidate's key is recent when the loop reaches  *)
(* that candidate, the cycle calls the sink zero times and leaves the      *)
(* store and the cache file unchanged.                                     *)
(***************************************************************************)
C6_RecentWhenReached ==
  (/\ CycleOver
   /\ fetch = "ok"
   /\ Len(checked) = Len(seen)
   /\ \A i \in DOMAIN checked : checked[i])
  => (attempts = <<>> /\ sent_tokens = store0 /\ file = file0)

\* a full cycle over four candidates, all recent, with a non-empty store
C6_Witness ==
  /\ CycleOver
  /\ exit_kind = "normal"
  /\ Len(seen) = TopN
  /\ Len(checked) = TopN
  /\ \A i \in DOMAIN checked : checked[i]
  /\ {DedupKey(seen[i].address) : i \in DOMAIN seen} = Keys
  /\ attempts = <<>>

(***************************************************************************)
(* C7.  Order and cap: in every state of a cycle, the sink calls are for   *)
(* positions of the first four of the feed only, in strictly increasing    *)
(* position, each for the key of the record at its position, and the       *)
(* records called for are exactly the token records whose key was not      *)
(* recent when the loop reached them (the one the loop is at, and has not  *)
(* yet sent, aside).                                                       *)
(***************************************************************************)
C7_OrderAndCap ==
  /\ \A j \in DOMAIN attempts :
       /\ attempts[j].pos \in 1..TopN
       /\ attempts[j].pos <= rank_len
       /\ attempts[j].pos \in DOMAIN seen
       /\ attempts[j].key = DedupKey(seen[attempts[j].pos].address)
  /\ \A j, l \in DOMAIN attempts : j < l => attempts[j].pos < attempts[l].pos
  /\ Len(seen) <= TopN
  /\ \A i \in DOMAIN checked :
       Attempted(i) <=>
         (~checked[i] /\ WellFormed(seen[i]) /\ ~(pc = "send" /\ idx = i))

\* a ranking list longer than the cap: positions 1, 3 and 4 are called for in
\* that order, position 2 is skipped as recent, the loop ends after position 4
C7_Witness ==
  /\ CycleOver
  /\ exit_kind = "normal"
  /\ rank_len > TopN
  /\ Len(seen) = TopN
  /\ checked = <<FALSE, TRUE, FALSE, FALSE>>
  /\ Len(attempts) = 3
  /\ attempts[1].pos = 1 /\ attempts[2].pos = 3 /\ attempts[3].pos = 4

(***************************************************************************)
(* C8.  Retry by omission: a key whose latest delivery, in an earlier      *)
(* cycle, failed is never recent, and when a cycle over fetched token      *)
(* records is over, every such key that was among the candidates has been  *)
(* attempted again in this cycle, and is marked sent if a delivery of it   *)
(* succeeded.                                                              *)
(***************************************************************************)
C8_RetryUntilSuccess ==
  \A k \in retry :
    /\ Loaded => (~DeliveredInCycle(k) => ~was_token_sent_recently(sent_tokens, k, now))
    /\ (/\ CycleOver
        /\ FetchedTokenRecords
        /\ \E i \in DOMAIN seen : DedupKey(seen[i].address) = k)
       => /\ AttemptsOf(k) # {}
          /\ DeliveredInCycle(k) => ChangedInStore(k)

\* a key whose latest delivery in an earlier cycle failed: in this cycle it is
\* attempted again, fails once more, and is then delivered and marked
C8_Witness ==
  /\ CycleOver
  /\ FetchedTokenRecords
  /\ \E k \in retry :
       /\ DeliveredInCycle(k)
       /\ ChangedInStore(k)
       /\ \E i \in AttemptsOf(k) : ~attempts[i].ok

(***************************************************************************)
(* C9.  Load pruning: the step that loads a well-formed cache file leaves  *)
(* as in-memory store the file's mapping restricted to the entries whose   *)
(* age at load time is less than 24 hours, timestamps unchanged; every     *)
(* older entry is absent, and the recency query of its key answers false.  *)
(***************************************************************************)
C9_LoadPruning ==
  [][(pc # "loaded" /\ pc' = "loaded" /\ file.kind = "dict") =>
       /\ DOMAIN sent_tokens' \subseteq DOMAIN file.map
       /\ \A k \in DOMAIN file.map :
            IF now - file.map[k] < Horizon
              THEN k \in DOMAIN sent_tokens' /\ sent_tokens'[k] = file.map[k]
              ELSE /\ k \notin DOMAIN sent_tokens'
                   /\ ~was_token_sent_recently(sent_tokens', k, now)]_vars

\* just loaded: one entry of the file was 24 hours old or older and is gone,
\* another was younger and is kept
C9_Witness ==
  /\ pc = "loaded"
  /\ file.kind = "dict"
  /\ \E k \in DOMAIN file.map : now - file.map[k] >= Horizon /\ k \notin DOMAIN sent_tokens
  /\ \E k \in DOMAIN file.map :
       now - file.map[k] < Horizon /\ k \in DOMAIN sent_tokens /\ sent_tokens[k] = file.map[k]

(***************************************************************************)
(* C10.  Cache load never fails the process: whatever the state of the     *)
(* cache file, the process gets past the load to its fetch, and when the   *)
(* file is not a readable well-formed mapping the store it starts the      *)
(* cycle with is empty.                                                    *)
(***************************************************************************)
C10_LoadNeverFatal ==
  /\ ~(pc = "done" /\ fetch = "none")
  /\ (pc = "loaded" /\ file.kind # "dict") => sent_tokens = EmptyDict
  /\ (Loaded /\ file0.kind # "dict") => store0 = EmptyDict

\* a process in its loop after the load of a cache file that was unreadable, not
\* valid JSON or of an unexpected shape
C10_Witness ==
  /\ pc = "loop"
  /\ file0.kind \in {"unreadable", "invalid_json", "wrong_shape"}
  /\ store0 = EmptyDict

(***************************************************************************)
(* C11.  A failed write of the cache is tolerated: a key whose mark was    *)
(* followed by a failed write was delivered in this cycle and stays in the *)
(* in-memory store with a timestamp no older than that mark, so the        *)
(* recency query answers true for it until 24 hours after the mark; the    *)
(* failure does not leave save_cache, and the cycle over fetched token     *)
(* records goes on to its normal end with every candidate reached.         *)
(***************************************************************************)
C11_PersistFailureTolerance ==
  /\ \A k \in DOMAIN save_failed :
       /\ DeliveredInCycle(k)
       /\ k \in DOMAIN sent_tokens
       /\ sent_tokens[k] >= save_failed[k]
       /\ now < save_failed[k] + Horizon =>
            was_token_sent_recently(sent_tokens, k, now)
  /\ (CycleOver /\ FetchedTokenRecords /\ DOMAIN save_failed # {}) =>
       /\ exit_kind = "normal"
       /\ Len(seen) = CoinsDataLen(rank_len)
       /\ Len(checked) = Len(seen)

\* the write after the mark of a key failed, and the file does not hold the key;
\* the loop went on to a later candidate and called the sink for it, the cycle
\* ended normally, and the key is still recent in memory
C11_Witness ==
  /\ CycleOver
  /\ exit_kind = "normal"
  /\ \E i, j \in DOMAIN attempts :
       /\ i < j
       /\ attempts[i].ok
       /\ attempts[i].key \in DOMAIN save_failed
       /\ attempts[j].key # attempts[i].key
       /\ file.kind = "dict" => attempts[i].key \notin DOMAIN file.map
       /\ was_token_sent_recently(sent_tokens, attempts[i].key, now)

(***************************************************************************)
(* C12.  The write of the cache is atomic: at every instant the cache file *)
(* is absent or holds a complete mapping, and every invocation that has    *)
(* loaded the cache found the file absent or holding a complete mapping    *)
(* (never empty, never partly written).                                    *)
(***************************************************************************)
C12_AtomicPersist ==
  /\ file.kind \in {"missing", "dict"}
  /\ \A p \in Procs :
       proc[p].pc # "idle" => proc[p].file0.kind \in {"missing", "dict"}

(***************************************************************************)
(* C13.  Cleanup is guaranteed: once the cycle of a run is over, however   *)
(* it ended (normally, with deliveries failed or not, after a failed fetch *)
(* or on an exception), cleanup_temp_files has been called in that run.    *)
(***************************************************************************)
C13_GuaranteedCleanup ==
  CycleOver => cleaned

(***************************************************************************)
(* C14.  The exit status tells the outcome: once the cycle is over, the    *)
(* exit status of the process is 0 exactly when the external source call   *)
(* did not fail; failed deliveries and failed writes of the cache alone    *)
(* leave it 0.                                                             *)
(***************************************************************************)
C14_ExitStatus ==
  CycleOver => ((ExitStatus(exit_kind) = 0) <=> ~FetchFailed)

(***************************************************************************)
(* C15.  The recency query is a pure read: the step of the loop that asks  *)
(* was_token_sent_recently for the key of a record leaves the in-memory    *)
(* store and the cache file as they were, whether the key is absent,       *)
(* present and recent, or present and expired, and answers true exactly    *)
(* when the key is present with an age below 24 hours.                     *)
(***************************************************************************)
C15_IsRecentPureRead ==
  [][(pc = "loop" /\ checked' # checked) =>
       /\ sent_tokens' = sent_tokens
       /\ file' = file
       /\ checked' = Append(checked,
            /\ DedupKey(coin.address) \in DOMAIN sent_tokens
            /\ now - sent_tokens[DedupKey(coin.address)] < Horizon)]_vars

\* a cycle that asked for a key present and expired (its delivery then failed)
\* and for a key present and recent: the expired entry is still in the store,
\* and the store and the file are what they were
C15_Witness ==
  /\ CycleOver
  /\ sent_tokens = store0
  /\ file = file0
  /\ \E i, j \in DOMAIN checked :
       /\ ~checked[i]
       /\ DedupKey(seen[i].address) \in DOMAIN sent_tokens
       /\ now - sent_tokens[DedupKey(seen[i].address)] >= Horizon
       /\ checked[j]

(***************************************************************************)
(* C16.  Write-through: when the cycle of a run is over and no write of    *)
(* the cache failed in the run, the cache file holds the in-memory store   *)
(* (an absent file counting as the empty mapping).                         *)
(***************************************************************************)
C16_WriteThrough ==
  (CycleOver /\ ~io_failed) =>
    \/ file.kind = "dict" /\ file.map = sent_tokens
    \/ file.kind = "missing" /\ sent_tokens = EmptyDict

(***************************************************************************)
(* C17.  No double notification under overlap: of two invocations that     *)
(* overlap, share the cache file and find no entry in it, at most one      *)
(* delivers a given key.                                                   *)
(***************************************************************************)
C17_NoDoubleNotification ==
  \A k \in Keys : \A p, q \in Procs :
    (k \in proc[p].delivered /\ k \in proc[q].delivered) => p = q

(***************************************************************************)
(* C18, as stated.  Within one cycle, if two of the fetched candidates     *)
(* have the same address and the delivery of the first succeeded, the      *)
(* second is skipped as recent and is not delivered.                       *)
(***************************************************************************)
C18_DuplicateSkipped ==
  \A i, j \in DOMAIN checked :
    (/\ i < j
     /\ "address" \in DOMAIN seen[i]
     /\ "address" \in DOMAIN seen[j]
     /\ seen[i].address = seen[j].address
     /\ \E a \in DOMAIN attempts : attempts[a].pos = i /\ attempts[a].ok)
    => (checked[j] /\ ~Attempted(j))

(***************************************************************************)
(* C18, amended.  The key the loop checks is the key the mark records: the *)
(* step of the loop that checks a record whose address was delivered       *)
(* earlier in this cycle, less than 24 hours after the latest such         *)
(* delivery was marked, answers recent, and the record is skipped: no call *)
(* of the sink, no change of the store or the file.                        *)
(***************************************************************************)
C18_DuplicateSkippedWithinWindow ==
  [][(/\ pc = "loop"
      /\ checked' # checked
      /\ DeliveredInCycle(DedupKey(coin.address))
      /\ now < last_sent[DedupKey(coin.address)] + Horizon)
     => /\ checked' = Append(checked, TRUE)
        /\ pc' # "send"
        /\ attempts' = attempts
        /\ sent_tokens' = sent_tokens
        /\ file' = file]_vars

\* a cycle over two records with the same address: the first was delivered and
\* marked, the second was skipped as recent
C18_Witness ==
  /\ CycleOver
  /\ exit_kind = "normal"
  /\ Len(seen) = 2
  /\ seen[1].address = seen[2].address
  /\ checked = <<FALSE, TRUE>>
  /\ Len(attempts) = 1
  /\ attempts[1].pos = 1
  /\ attempts[1].ok
  /\ last_sent[attempts[1].key] = sent_tokens[attempts[1].key]

(***************************************************************************)
(* C19.  No lost update: when two overlapping invocations that loaded the  *)
(* same cache file have both ended, each having marked keys the other did  *)
(* not and written its store with success, the cache file holds every key  *)
(* either of them marked.                                                  *)
(***************************************************************************)
C19_NoLostUpdate ==
  (/\ \A p \in Procs : proc[p].pc = "done" /\ proc[p].written # {}
   /\ \A p, q \in Procs :
        /\ proc[p].file0 = proc[q].file0
        /\ p # q => proc[p].written \cap proc[q].written = {})
  => /\ file.kind = "dict"
     /\ \A p \in Procs : proc[p].written \subseteq DOMAIN file.map

====
